---- MODULE Spec2Model ----
(***************************************************************************)
(* EmaCrossUniverseSelectionAlgorithm: coarse universe selection by the    *)
(* cross of a 100-sample and a 300-sample exponential moving average.      *)
(*                                                                         *)
(* Prices and accumulator values are integers counting price quanta; a     *)
(* scale is the exact fraction n/d held as the record [n, d].              *)
(***************************************************************************)
EXTENDS Integers, Sequences, FiniteSets, TLC

VARIABLES
    averages,     \* self.averages: <<[key, val]>> in insertion order (a dict)
    result,       \* how the last call of coarse_selection_function ended
    values,       \* the local `values` of that call when it ended
    logged,       \* the lines that call passed to self.log
    calls,        \* per symbol: number of calls of SymbolData.update so far
    constructed,  \* per symbol: number of calls of SymbolData.__init__ so far
    seen,         \* the symbols that appeared in any batch so far
    feed,         \* the platform's price feed, per symbol
    time,         \* number of universe-evaluation ticks so far
    changes,      \* the argument of the last call of on_securities_changed
    issued        \* the calls of liquidate and set_holdings that call made

vars == <<averages, result, values, logged, calls, constructed, seen, feed, time,
          changes, issued>>

----------------------------------------------------------------------------
\* Bounds of the model.

MaxCalls == 520       \* ticks of the single-symbol specification
MaxTicks == 3         \* ticks of the whole-algorithm specification
StartPrice == 20000   \* price before the first sample, in quanta
RampStep == 5         \* per-sample rise of a rising price sequence
SwitchEvery == 8      \* one symbol: its price changes slope on these samples only
SwitchEveryTwo == 103 \* two symbols: their prices change slope on these only
LateTicks == 3        \* two symbols: last ticks, whose batch may leave symbols out

Symbols == {"A", "B", "C"}
Slopes == {0, RampStep}

----------------------------------------------------------------------------
\* Program constants.

FastPeriod == 100
SlowPeriod == 300
ToleranceNum == 101
ToleranceDen == 100
coarse_count == 10

----------------------------------------------------------------------------
\* Exponential moving average accumulator.

ExponentialMovingAverage(period) ==
    [period |-> period, samples |-> 0, value |-> 0]

IsReady(ema) == ema.samples >= ema.period

\* value := a * price + (1 - a) * value with a = 2 / (period + 1), rounded to
\* the nearest quantum; the first sample sets the value.
EmaUpdate(ema, t, price) ==
    [ema EXCEPT
        !.samples = @ + 1,
        !.value = IF ema.samples = 0
                  THEN price
                  ELSE (2 * 2 * price + 2 * (ema.period - 1) * @ + (ema.period + 1))
                           \div (2 * (ema.period + 1))]

----------------------------------------------------------------------------
\* class SymbolData

\* The constructor with the flag initially set.
SymbolDataUp(symbol) ==
    [_symbol |-> symbol,
     fast |-> ExponentialMovingAverage(FastPeriod),
     slow |-> ExponentialMovingAverage(SlowPeriod),
     is_uptrend |-> TRUE,
     scale |-> [n |-> 0, d |-> 1]]

SymbolData(symbol) ==
    [_symbol |-> symbol,
     fast |-> ExponentialMovingAverage(FastPeriod),
     slow |-> ExponentialMovingAverage(SlowPeriod),
     is_uptrend |-> FALSE,
     scale |-> [n |-> 0, d |-> 1]]

\* The comparison without the tolerance.
Above_plain(fast, slow) == fast > slow

\* fast > slow * self.tolerance
Above(fast, slow) == fast * ToleranceDen > slow * ToleranceNum

\* The spread with its operands exchanged.
ScaleOf_swapped(fast, slow) == [n |-> (slow - fast) * 2, d |-> fast + slow]

\* The spread over the sum instead of over the mean.
ScaleOf_sum(fast, slow) == [n |-> fast - slow, d |-> fast + slow]

\* (fast - slow) / ((fast + slow) / 2.0)
ScaleOf(fast, slow) == [n |-> (fast - slow) * 2, d |-> fast + slow]

\* update with `or` for `and`: the slow accumulator is fed only while the fast
\* one is not ready, and one ready accumulator is enough to recompute.
update_or(self, t, value) ==
    LET fast1 == EmaUpdate(self.fast, t, value)
        fastReady == IsReady(fast1)
        slow1 == IF fastReady THEN self.slow ELSE EmaUpdate(self.slow, t, value)
        ready == fastReady \/ IsReady(slow1)
        up == IF ready THEN Above(fast1.value, slow1.value) ELSE self.is_uptrend
        fed == [self EXCEPT !.fast = fast1, !.slow = slow1, !.is_uptrend = up]
    IN  IF ~up THEN [self |-> fed, err |-> "none"]
        ELSE IF ~ready THEN [self |-> fed, err |-> "UnboundLocalError"]
        ELSE IF fast1.value + slow1.value = 0
             THEN [self |-> fed, err |-> "ZeroDivisionError"]
        ELSE [self |-> [fed EXCEPT !.scale = ScaleOf(fast1.value, slow1.value)],
              err |-> "none"]

\* update with an else branch that clears the scale of a non-uptrend instance.
update_reset(self, t, value) ==
    LET fast1 == EmaUpdate(self.fast, t, value)
        fastReady == IsReady(fast1)
        slow1 == IF fastReady THEN EmaUpdate(self.slow, t, value) ELSE self.slow
        ready == fastReady /\ IsReady(slow1)
        up == IF ready THEN Above(fast1.value, slow1.value) ELSE self.is_uptrend
        fed == [self EXCEPT !.fast = fast1, !.slow = slow1, !.is_uptrend = up]
    IN  IF ~up THEN [self |-> [fed EXCEPT !.scale = [n |-> 0, d |-> 1]], err |-> "none"]
        ELSE IF ~ready THEN [self |-> fed, err |-> "UnboundLocalError"]
        ELSE IF fast1.value + slow1.value = 0
             THEN [self |-> fed, err |-> "ZeroDivisionError"]
        ELSE [self |-> [fed EXCEPT !.scale = ScaleOf(fast1.value, slow1.value)],
              err |-> "none"]

\* SymbolData.update: the instance after the call and the error it raised.
update(self, t, value) ==
    LET fast1 == EmaUpdate(self.fast, t, value)
        fastReady == IsReady(fast1)
        \* `and` evaluates its right operand only when the left one is true
        slow1 == IF fastReady THEN EmaUpdate(self.slow, t, value) ELSE self.slow
        ready == fastReady /\ IsReady(slow1)
        up == IF ready THEN Above(fast1.value, slow1.value) ELSE self.is_uptrend
        fed == [self EXCEPT !.fast = fast1, !.slow = slow1, !.is_uptrend = up]
    IN  IF ~up THEN [self |-> fed, err |-> "none"]
        ELSE IF ~ready THEN [self |-> fed, err |-> "UnboundLocalError"]
        ELSE IF fast1.value + slow1.value = 0
             THEN [self |-> fed, err |-> "ZeroDivisionError"]
        ELSE [self |-> [fed EXCEPT !.scale = ScaleOf(fast1.value, slow1.value)],
              err |-> "none"]

----------------------------------------------------------------------------
\* self.averages, a dict: a sequence of [key, val] in insertion order.

Keys(d) == {d[i].key : i \in DOMAIN d}

IndexOf(d, k) == CHOOSE i \in DOMAIN d : d[i].key = k

DictValues(d) == [i \in DOMAIN d |-> d[i].val]

Range(s) == {s[i] : i \in DOMAIN s}

Min(a, b) == IF a < b THEN a ELSE b

\* The assignment without its test: a tracked symbol gets a new instance.
RegisterAlways(d, symbol) ==
    IF symbol \notin Keys(d)
    THEN [averages |-> Append(d, [key |-> symbol, val |-> SymbolData(symbol)]),
          made |-> <<symbol>>]
    ELSE [averages |-> [d EXCEPT ![IndexOf(d, symbol)].val = SymbolData(symbol)],
          made |-> <<symbol>>]

\* if cf.symbol not in self.averages: self.averages[cf.symbol] = SymbolData(cf.symbol)
Register(d, symbol) ==
    IF symbol \notin Keys(d)
    THEN [averages |-> Append(d, [key |-> symbol, val |-> SymbolData(symbol)]),
          made |-> <<symbol>>]
    ELSE [averages |-> d, made |-> <<>>]

\* The loop feeding each entry's sample to every instance of the registry.
RECURSIVE UpdateLoopAll(_, _, _)
UpdateLoopAll(st, coarse, i) ==
    IF i > Len(coarse) \/ st.err # "none" THEN st
    ELSE LET cf == coarse[i]
             reg == Register(st.averages, cf.symbol)
         IN  UpdateLoopAll(
                 [averages |->
                      [k \in DOMAIN reg.averages |->
                          [key |-> reg.averages[k].key,
                           val |-> update(reg.averages[k].val, cf.end_time,
                                          cf.adjusted_price).self]],
                  err |-> "none",
                  done |-> i,
                  made |-> st.made \o reg.made],
                 coarse, i + 1)

\* The loop over the batch, from entry i on. It ends early when update raises.
RECURSIVE UpdateLoop(_, _, _)
UpdateLoop(st, coarse, i) ==
    IF i > Len(coarse) \/ st.err # "none" THEN st
    ELSE LET cf == coarse[i]
             reg == Register(st.averages, cf.symbol)
             k == IndexOf(reg.averages, cf.symbol)
             r == update(reg.averages[k].val, cf.end_time, cf.adjusted_price)
         IN  UpdateLoop([averages |-> [reg.averages EXCEPT ![k].val = r.self],
                         err |-> r.err,
                         done |-> i,
                         made |-> st.made \o reg.made],
                        coarse, i + 1)

\* The values of the dict, unfiltered.
FilterNothing(xs) == xs

\* list(filter(lambda x: x.is_uptrend, self.averages.values()))
RECURSIVE FilterUptrend(_)
FilterUptrend(xs) ==
    IF xs = <<>> THEN <<>>
    ELSE IF Head(xs).is_uptrend THEN <<Head(xs)>> \o FilterUptrend(Tail(xs))
    ELSE FilterUptrend(Tail(xs))

ScaleGreater(a, b) == a.n * b.d > b.n * a.d

\* x goes in front of the elements of its own scale, as when an ascending sort
\* is reversed: equal scales come out against the order they went in.
RECURSIVE InsertByScaleFront(_, _)
InsertByScaleFront(sorted, x) ==
    IF sorted = <<>> THEN <<x>>
    ELSE IF ~ScaleGreater(Head(sorted).scale, x.scale) THEN <<x>> \o sorted
    ELSE <<Head(sorted)>> \o InsertByScaleFront(Tail(sorted), x)

\* x goes behind every element whose scale is not smaller: the sort is stable.
RECURSIVE InsertByScale(_, _)
InsertByScale(sorted, x) ==
    IF sorted = <<>> THEN <<x>>
    ELSE IF ScaleGreater(x.scale, Head(sorted).scale) THEN <<x>> \o sorted
    ELSE <<Head(sorted)>> \o InsertByScale(Tail(sorted), x)

\* values.sort(key=lambda x: x.scale, reverse=True)
RECURSIVE SortByScale(_)
SortByScale(xs) ==
    IF xs = <<>> THEN <<>>
    ELSE InsertByScale(SortByScale(SubSeq(xs, 1, Len(xs) - 1)), xs[Len(xs)])

\* values[:self.coarse_count]
Top(xs) == SubSeq(xs, 1, Min(coarse_count, Len(xs)))

\* Attribute lookup on an instance: its attributes are those __init__ assigned.
HasAttr(x, name) == name \in DOMAIN x

Occurrences(s, x) == Cardinality({i \in DOMAIN s : s[i] = x})

\* coarse_selection_function(self, coarse)
coarse_selection_function(coarse) ==
    LET st == UpdateLoop([averages |-> averages, err |-> "none", done |-> 0,
                          made |-> <<>>], coarse, 1)
        fed == [i \in 1..st.done |-> coarse[i].symbol]
        sorted == SortByScale(FilterUptrend(DictValues(st.averages)))
        top == Top(sorted)
    IN  /\ averages' = st.averages
        /\ calls' = [s \in Symbols |-> calls[s] + Occurrences(fed, s)]
        /\ constructed' = [s \in Symbols |-> constructed[s] + Occurrences(st.made, s)]
        /\ seen' = seen \cup {coarse[i].symbol : i \in DOMAIN coarse}
        /\ IF st.err # "none"
           THEN /\ result' = [status |-> "raised", error |-> st.err, value |-> <<>>]
                /\ values' = <<>>
                /\ logged' = <<>>
           ELSE IF \E i \in DOMAIN top : ~HasAttr(top[i], "symbol")
           THEN /\ result' = [status |-> "raised", error |-> "AttributeError",
                              value |-> <<>>]
                /\ values' = sorted
                /\ logged' = <<>>
           ELSE /\ result' = [status |-> "returned", error |-> "none",
                              value |-> [i \in DOMAIN top |-> top[i]["symbol"]]]
                /\ values' = sorted
                /\ logged' = [i \in DOMAIN top |-> <<top[i]["symbol"], top[i].scale>>]

----------------------------------------------------------------------------
\* The platform: it calls coarse_selection_function once per tick with a batch
\* of (symbol, end_time, adjusted_price), one entry per symbol of the batch.

\* The next sample of one symbol's price sequence: flat or rising, and it
\* changes from the one to the other at most once.
Advance(f, switch) ==
    LET slope == IF switch THEN CHOOSE sl \in Slopes : sl # f.slope ELSE f.slope
    IN  [price |-> f.price + slope, slope |-> slope, switched |-> f.switched \/ switch]

MaySwitch(s, every) ==
    /\ ~feed[s].switched
    /\ calls[s] > 0
    /\ calls[s] % every = 0

\* The orders in which the symbols of a universe can come in one batch.
Orders(universe) ==
    {o \in UNION {[1..n -> universe] : n \in 0..Cardinality(universe)} :
        \A i, j \in DOMAIN o : i # j => o[i] # o[j]}

AnyBatch == Orders(Symbols)
OneBatch == {<<"A">>}
FullBatchTwo == {<<"A", "B">>, <<"B", "A">>}
AnyBatchTwo == Orders({"A", "B"})

\* One tick: the platform picks the batch's symbols and their next prices.
Tick(orders, every) ==
    \E order \in orders : \E switching \in SUBSET Range(order) :
        LET next == [s \in Symbols |->
                        IF s \in Range(order) THEN Advance(feed[s], s \in switching)
                        ELSE feed[s]]
            coarse == [i \in DOMAIN order |->
                          [symbol |-> order[i], end_time |-> time + 1,
                           adjusted_price |-> next[order[i]].price]]
        IN  /\ \A s \in switching : MaySwitch(s, every)
            /\ coarse_selection_function(coarse)
            /\ feed' = next
            /\ time' = time + 1
            /\ UNCHANGED <<changes, issued>>

\* initialize(self), before the first tick.
Init ==
    /\ averages = <<>>
    /\ result = [status |-> "none", error |-> "none", value |-> <<>>]
    /\ values = <<>>
    /\ logged = <<>>
    /\ calls = [s \in Symbols |-> 0]
    /\ constructed = [s \in Symbols |-> 0]
    /\ seen = {}
    /\ feed \in [Symbols -> {[price |-> StartPrice, slope |-> sl, switched |-> FALSE] :
                               sl \in Slopes}]
    /\ time = 0
    /\ changes = [removed_securities |-> <<>>, added_securities |-> <<>>]
    /\ issued = <<>>

\* The whole algorithm on a changing universe, for a few ticks.
TickAny == time < MaxTicks /\ Tick(AnyBatch, 2)

Next == TickAny

Spec == Init /\ [][Next]_vars

\* One symbol, fed on every tick, through and past the warm-up.
InitOne == Init /\ \A s \in Symbols \ {"A"} : feed[s].slope = 0

TickOne == time < MaxCalls /\ Tick(OneBatch, SwitchEvery)

NextOne == TickOne

SpecOne == InitOne /\ [][NextOne]_vars

\* Two symbols, both fed on every tick through the warm-up; the last ticks
\* may leave symbols out.
InitTwo == Init /\ \A s \in Symbols \ {"A", "B"} : feed[s].slope = 0

TickBoth == time < MaxCalls - LateTicks /\ Tick(FullBatchTwo, SwitchEveryTwo)

TickLate ==
    /\ time >= MaxCalls - LateTicks
    /\ time < MaxCalls
    /\ Tick(AnyBatchTwo, SwitchEveryTwo)

NextTwo == TickBoth \/ TickLate

SpecTwo == InitTwo /\ [][NextTwo]_vars

----------------------------------------------------------------------------
\* on_securities_changed(self, changes)

\* The loop over the removed securities, liquidating whether invested or not.
RECURSIVE LiquidateAll(_)
LiquidateAll(removed) ==
    IF removed = <<>> THEN <<>>
    ELSE <<[call |-> "liquidate", symbol |-> Head(removed).symbol, args |-> <<>>]>>
             \o LiquidateAll(Tail(removed))

\* for security in changes.removed_securities:
\*     if security.invested: self.liquidate(security.symbol)
RECURSIVE LiquidateRemoved(_)
LiquidateRemoved(removed) ==
    IF removed = <<>> THEN <<>>
    ELSE (IF Head(removed).invested
          THEN <<[call |-> "liquidate", symbol |-> Head(removed).symbol,
                  args |-> <<>>]>>
          ELSE <<>>)
             \o LiquidateRemoved(Tail(removed))

\* for security in changes.added_securities:
\*     self.set_holdings(security.symbol, 0.1)
AllocateAdded(added) ==
    [i \in DOMAIN added |->
        [call |-> "set_holdings", symbol |-> added[i].symbol,
         args |-> <<[n |-> 1, d |-> 10]>>]]

on_securities_changed(ch) ==
    /\ issued' = LiquidateRemoved(ch.removed_securities)
                     \o AllocateAdded(ch.added_securities)
    /\ changes' = ch
    /\ UNCHANGED <<averages, result, values, logged, calls, constructed, seen,
                   feed, time>>

\* The platform reports a change of the universe: securities removed, each
\* holding a position or not, and other securities added.
SecuritiesChanged ==
    \E removed \in AnyBatch : \E invested \in SUBSET Range(removed) :
        \E added \in Orders(Symbols \ Range(removed)) :
            on_securities_changed(
                [removed_securities |->
                     [i \in DOMAIN removed |->
                         [symbol |-> removed[i], invested |-> removed[i] \in invested]],
                 added_securities |->
                     [i \in DOMAIN added |-> [symbol |-> added[i]]]])

NextChanges == SecuritiesChanged

SpecChanges == Init /\ [][NextChanges]_vars

----------------------------------------------------------------------------
\* Reading the state.

Tracked == Keys(averages)

InstOf(d, s) == d[IndexOf(d, s)].val

Inst(s) == InstOf(averages, s)

IsZero(scale) == scale.n = 0

UpdateErrors == {"UnboundLocalError", "ZeroDivisionError"}

\* Every price of the symbol so far exceeded the one before it.
Rising(s) == feed[s].slope > 0 /\ ~feed[s].switched

----------------------------------------------------------------------------
\* C1. Warm-up gating: after each of the first 299 calls of update an
\* instance has is_uptrend = False and scale = 0, whatever the prices were,
\* and none of those calls raises.
C1WarmupGating ==
    /\ \A s \in Tracked :
          calls[s] <= SlowPeriod - 1 => ~Inst(s).is_uptrend /\ IsZero(Inst(s).scale)
    /\ time <= SlowPeriod - 1 => result.error \notin UpdateErrors

\* The 299th call of an instance whose fast average is more than 1% above its
\* slow average.
C1Witness ==
    /\ "A" \in Tracked
    /\ calls["A"] = SlowPeriod - 1
    /\ Inst("A").fast.value * 100 > Inst("A").slow.value * 101

\* C5. Uptrend recomputation: a call of update at which both accumulators
\* report ready leaves is_uptrend = (fast.value > slow.value * 1.01) on the
\* values after the call; a call at which one of them does not report ready
\* leaves is_uptrend as it was before the call.
C5UptrendRecomputed ==
    [][\A s \in Keys(averages') :
          calls'[s] > calls[s] =>
              LET x == InstOf(averages', s)
                  before == IF s \in Tracked THEN Inst(s).is_uptrend ELSE FALSE
              IN  IF IsReady(x.fast) /\ IsReady(x.slow)
                  THEN x.is_uptrend = (x.fast.value * 100 > x.slow.value * 101)
                  ELSE x.is_uptrend = before]_vars

\* Both accumulators are ready and the comparison put the instance in uptrend
\* after its prices had changed slope.
C5Witness ==
    /\ "A" \in Tracked
    /\ IsReady(Inst("A").fast) /\ IsReady(Inst("A").slow)
    /\ Inst("A").is_uptrend
    /\ feed["A"].switched

\* C6. Both accumulators are fed on every call: after n calls of update the
\* fast and the slow accumulator have each absorbed n samples.
C6BothFed ==
    \A s \in Tracked :
        Inst(s).fast.samples = calls[s] /\ Inst(s).slow.samples = calls[s]

\* C7. Scale formula: after a call of update that ends in uptrend, scale is
\* (fast - slow) / ((fast + slow) / 2) on the values after that call; for
\* fast = 110 and slow = 100 that is 10/105.
C7ScaleFormula ==
    /\ \A s \in Tracked :
          Inst(s).is_uptrend =>
              LET x == Inst(s)
              IN  /\ x.scale.d > 0
                  /\ x.scale.n * (x.fast.value + x.slow.value)
                         = 2 * (x.fast.value - x.slow.value) * x.scale.d
    /\ ScaleOf(110, 100).n * 105 = 10 * ScaleOf(110, 100).d

\* An instance in uptrend whose scale exceeds 1/100.
C7Witness ==
    /\ "A" \in Tracked
    /\ Inst("A").is_uptrend
    /\ Inst("A").scale.n * 100 > Inst("A").scale.d

\* C8. Stale scale retention: a call of update that ends with
\* is_uptrend = False leaves scale as it was before the call.
C8StaleScale ==
    [][\A s \in Keys(averages') :
          calls'[s] > calls[s] /\ ~InstOf(averages', s).is_uptrend =>
              InstOf(averages', s).scale
                  = IF s \in Tracked THEN Inst(s).scale ELSE [n |-> 0, d |-> 1]]_vars

\* An instance that left the uptrend and still holds the scale of its uptrend.
C8Witness ==
    /\ "A" \in Tracked
    /\ ~Inst("A").is_uptrend
    /\ Inst("A").scale.n > 0

\* C9. Monotonic convergence: on strictly increasing prices, every call from
\* the 300th on that leaves the fast average above 1.01 times the slow
\* average leaves is_uptrend = True.
C9UptrendFrom300 ==
    \A s \in Tracked :
        (/\ Rising(s)
         /\ calls[s] >= SlowPeriod
         /\ Inst(s).fast.value * 100 > Inst(s).slow.value * 101)
            => Inst(s).is_uptrend

----------------------------------------------------------------------------
\* The instances in uptrend, and the scale a symbol's instance holds.

Uptrend == {s \in Tracked : Inst(s).is_uptrend}

ScaleAt(s) == Inst(s).scale

\* C2. Ranking: every tick selects min(10, n) of the n instances in uptrend,
\* in non-increasing order of scale, none twice, and no uptrend instance left
\* out has a scale above that of a selected one.
C2Ranking ==
    time > 0 =>
        /\ result.status = "returned"
        /\ Len(result.value) = Min(10, Cardinality(Uptrend))
        /\ Range(result.value) \subseteq Uptrend
        /\ \A i, j \in DOMAIN result.value :
              i < j => /\ result.value[i] # result.value[j]
                       /\ ~ScaleGreater(ScaleAt(result.value[j]),
                                        ScaleAt(result.value[i]))
        /\ \A s \in Uptrend \ Range(result.value) : \A i \in DOMAIN result.value :
              ~ScaleGreater(ScaleAt(s), ScaleAt(result.value[i]))

\* C3. Non-uptrend exclusion: a symbol whose instance is not in uptrend when
\* the update loop of a tick has ended is neither among the instances the tick
\* ranked nor in the list it returned, whatever scale the instance holds.
C3NonUptrendExcluded ==
    \A s \in Tracked :
        ~Inst(s).is_uptrend =>
            /\ s \notin Range(result.value)
            /\ \A i \in DOMAIN values : values[i]._symbol # s

\* A tick ranked an instance in uptrend while an instance out of uptrend held
\* a scale above that of every ranked one.
C3Witness ==
    /\ values # <<>>
    /\ \E s \in Tracked :
          /\ ~Inst(s).is_uptrend
          /\ \A i \in DOMAIN values : ScaleGreater(ScaleAt(s), values[i].scale)

\* C4. Output identity: every tick returns normally a list of symbols whose
\* i-th element is the symbol the i-th ranked instance was constructed with,
\* the key it is registered under, and that symbol never changes.
C4OutputIdentity ==
    /\ \A i \in DOMAIN averages : averages[i].val._symbol = averages[i].key
    /\ time > 0 =>
          /\ result.status = "returned"
          /\ Len(result.value) = Len(Top(values))
          /\ \A i \in DOMAIN result.value : result.value[i] = values[i]._symbol

\* C10. Registry lifecycle: the keys of averages are the symbols that appeared
\* in any batch so far; each has one instance, constructed once, which has
\* absorbed every sample of its symbol since.
C10RegistryLifecycle ==
    /\ Tracked = seen
    /\ Len(averages) = Cardinality(Tracked)
    /\ \A s \in Symbols : constructed[s] = IF s \in seen THEN 1 ELSE 0
    /\ \A s \in Tracked :
          /\ Inst(s)._symbol = s
          /\ Inst(s).fast.samples = calls[s]

\* The first symbol registered was left out of a later batch that brought
\* another symbol, and it has been fed again since its registration.
C10Witness ==
    /\ Len(averages) >= 2
    /\ calls[averages[1].key] >= 2
    /\ \E i \in DOMAIN averages : calls[averages[i].key] > calls[averages[1].key]

----------------------------------------------------------------------------
\* The calls of one kind among those the last on_securities_changed made.

IssuedAt(call) == {i \in DOMAIN issued : issued[i].call = call}

----------------------------------------------------------------------------
\* Two scales are the same fraction.
ScaleEqual(a, b) == a.n * b.d = b.n * a.d

----------------------------------------------------------------------------
\* C13. Empty results are not errors: a tick whose batch is empty, or after
\* whose updates no tracked instance is in uptrend, returns the empty list
\* without raising; a tick with fewer than 10 instances in uptrend returns a
\* list shorter than 10 that holds all of them.
C13EmptyNotError ==
    [][time' = time + 1 =>
          /\ (calls' = calls \/ Uptrend' = {}) =>
                result'.status = "returned" /\ result'.value = <<>>
          /\ Cardinality(Uptrend') < 10 =>
                /\ result'.status = "returned"
                /\ Len(result'.value) < 10
                /\ Range(result'.value) = Uptrend']_vars

----------------------------------------------------------------------------
\* C14. The scale computation never reads unassigned values: is_uptrend is
\* never True at the end of a call of update on which the accumulators were
\* not both ready, so whenever the second test of update finds it True the
\* locals fast and slow are bound, and no call raises UnboundLocalError.
C14LocalsBound ==
    /\ \A s \in Tracked :
          Inst(s).is_uptrend => IsReady(Inst(s).fast) /\ IsReady(Inst(s).slow)
    /\ result.error # "UnboundLocalError"

\* An instance that has been in uptrend on successive calls: its flag was
\* True before the call and the call recomputed it.
C14Witness ==
    /\ "A" \in Tracked
    /\ Inst("A").is_uptrend
    /\ calls["A"] > FastPeriod + SlowPeriod

----------------------------------------------------------------------------
\* C15. On strictly positive prices the divisor (fast + slow) / 2 of the scale
\* is strictly positive whenever update computes it, no call raises
\* ZeroDivisionError, and the scale computed is strictly positive and below 2:
\* in every state a scale is 0 or strictly positive, never negative.
C15ScalePositive ==
    /\ result.error # "ZeroDivisionError"
    /\ \A s \in Tracked :
          LET x == Inst(s)
          IN  /\ x.scale.d > 0
              /\ x.scale.n >= 0
              /\ x.scale.n < 2 * x.scale.d
              /\ x.is_uptrend =>
                    /\ x.fast.value + x.slow.value > 0
                    /\ x.scale.n > 0

\* An instance in uptrend whose scale exceeds 2/100.
C15Witness ==
    /\ "A" \in Tracked
    /\ Inst("A").is_uptrend
    /\ Inst("A").scale.n * 50 > Inst("A").scale.d

----------------------------------------------------------------------------
\* C16. Per-symbol isolation: a tick calls update once per batch entry, on the
\* instance of that entry's symbol; the instance of a symbol that is not in
\* the batch is as before the tick; and the registry the tick leaves is the
\* one its update loop made: its keys keep their order, and filtering,
\* sorting, logging and returning changed no instance.
C16Isolation ==
    [][time' = time + 1 =>
          /\ \A i \in DOMAIN averages : averages'[i].key = averages[i].key
          /\ \A s \in Symbols :
                IF calls'[s] = calls[s]
                THEN /\ s \in Tracked <=> s \in Tracked'
                     /\ s \in Tracked => InstOf(averages', s) = Inst(s)
                ELSE /\ calls'[s] = calls[s] + 1
                     /\ s \in Tracked'
                     /\ InstOf(averages', s)
                            = update(IF s \in Tracked THEN Inst(s) ELSE SymbolData(s),
                                     time', feed'[s].price).self]_vars

\* A tick fed B and left out A, whose instance is in uptrend.
C16Witness ==
    /\ "A" \in Tracked
    /\ Inst("A").is_uptrend
    /\ calls["A"] < calls["B"]

----------------------------------------------------------------------------
\* C17. Selection ranges over the whole registry: an instance whose symbol is
\* not in the tick's batch and whose is_uptrend is True from an earlier tick
\* is returned by the tick whenever it ranks in the top 10 with the scale it
\* retains (fewer than 10 other uptrend instances have a scale as large).
C17WholeRegistry ==
    [][time' = time + 1 =>
          \A s \in Tracked :
              (/\ calls'[s] = calls[s]
               /\ Inst(s).is_uptrend
               /\ Cardinality({u \in Uptrend' \ {s} :
                                  ~ScaleGreater(InstOf(averages', s).scale,
                                                InstOf(averages', u).scale)})
                      < 10)
                  => /\ result'.status = "returned"
                     /\ s \in Range(result'.value)]_vars

====
